---- MODULE Spec2Model ----
(***************************************************************************)
(* A model of get_metrics (src/group_purity.py): galaxy-wise purity and    *)
(* completeness of a group catalog against the true halo ids of a mock     *)
(* catalog.                                                                *)
(*                                                                         *)
(* Conventions.                                                            *)
(*  - numpy arrays are TLA+ sequences; indices are 1-based here and        *)
(*    0-based in the source, which changes no result.                      *)
(*  - a float produced by the division of two counts is the exact          *)
(*    fraction in lowest terms, <<numerator, denominator>>; for the small  *)
(*    counts of the model two quotients are the same double exactly when   *)
(*    their reduced fractions are equal.  The float v of a literal is      *)
(*    <<v, 1>>.                                                            *)
(*  - the locals of the function are one function from the names that are  *)
(*    bound so far to their values, so that a name that was never          *)
(*    assigned is absent from its domain, as in Python.                    *)
(*  - scipy.stats.mode is the implementation the indexing [0][0] of line   *)
(*    61 is written for (array results): the smallest of the most frequent *)
(*    values.                                                              *)
(***************************************************************************)
EXTENDS Integers, Sequences, FiniteSets, TLC

\* ------------------------------------------------------------ bounds
MaxGal == 3

GroupIds == {1, 2}
HaloIds == {10, 20}
PropValues == {-30, -20, -19, -12, 1, 2}

\* The documented scenario of the specification (four galaxies).
ScenarioInput == << <<1, 1, 2, 2>>, <<10, 10, 20, 10>>, <<-20, -19, -18, -17>> >>

\* ------------------------------------------------------------ program constants
Sentinel == -999
MagLow == -30
MagHigh == -12
MassLow == 0

\* ------------------------------------------------------------ helpers
Range(s) == {s[i] : i \in DOMAIN s}

SeqsUpTo(S, n) == UNION {[1..k -> S] : k \in 0..n}

MinOf(S) == CHOOSE m \in S : \A x \in S : m <= x

RECURSIVE SetToSortedSeq(_)
SetToSortedSeq(S) ==
    IF S = {} THEN <<>>
    ELSE LET m == MinOf(S) IN <<m>> \o SetToSortedSeq(S \ {m})

RECURSIVE GCD(_, _)
GCD(a, b) == IF b = 0 THEN a ELSE GCD(b, a % b)

\* A float literal.
Float(v) == <<v, 1>>

\* a / b on counts (numpy true division).  b = 0 gives inf or nan, kept as
\* a fraction of denominator 0.
TrueDivide(a, b) ==
    IF b = 0 THEN <<a, 0>>
    ELSE LET g == GCD(a, b) IN <<a \div g, b \div g>>

\* np.full with one element too many.
NpFullOneMore(n, v) == [i \in 1..(n + 1) |-> v]

\* np.full(n, v)
NpFull(n, v) == [i \in 1..n |-> v]

\* np.unique(a): the distinct values of a, ascending.
NpUnique(a) == SetToSortedSeq(Range(a))

\* np.where(a == v)[0]: the indices of a holding v, ascending.
NpWhereEq(a, v) == SetToSortedSeq({i \in DOMAIN a : a[i] = v})

\* (a > c).all() and (a < c).all(); true of the empty array.
AllGreater(a, c) == \A i \in DOMAIN a : a[i] > c
AllLess(a, c) == \A i \in DOMAIN a : a[i] < c

\* a[idx] for an index array idx: defined when every index is in range,
\* an IndexError otherwise.
InBounds(a, idx) == \A k \in DOMAIN idx : idx[k] \in DOMAIN a
Take(a, idx) == [k \in 1..Len(idx) |-> a[idx[k]]]

\* np.argsort(keys): an index array that sorts keys ascending.  The default
\* sort is not stable, so every sorting permutation is a possible result.
ArgSorts(keys) ==
    {p \in [1..Len(keys) -> 1..Len(keys)] :
        /\ Range(p) = 1..Len(keys)
        /\ \A k \in 1..(Len(keys) - 1) : keys[p[k]] <= keys[p[k + 1]]}

\* (a == v).sum() and len(np.where(a == v)[0])
CountEq(a, v) == Cardinality({i \in DOMAIN a : a[i] = v})

\* scipy.stats.mode(a)[0][0]: scan the distinct values in ascending order
\* and keep a value only when its count is strictly larger than the best
\* count so far.
RECURSIVE ModeScan(_, _, _, _)
ModeScan(a, scores, best, bestcount) ==
    IF scores = <<>> THEN best
    ELSE LET s == Head(scores)
             c == CountEq(a, s)
         IN IF c > bestcount
            THEN ModeScan(a, Tail(scores), s, c)
            ELSE ModeScan(a, Tail(scores), best, bestcount)

\* A mode that resolves a tie to the largest value.
ModeLargestOnTie(a) ==
    CHOOSE v \in Range(a) :
        \A w \in Range(a) :
            \/ CountEq(a, v) > CountEq(a, w)
            \/ CountEq(a, v) = CountEq(a, w) /\ v >= w

\* The halo of the ranked-first galaxy instead of the mode.
ModeFirstRanked(a) == a[1]

ScipyMode(a) == ModeScan(a, NpUnique(a), 0, 0)

\* sortfactor * galproperty[groupsel]
Scaled(f, a) == [k \in DOMAIN a |-> f * a[k]]

\* ------------------------------------------------------------ the lines of get_metrics
\* Line 50 and line 53: the two range tests of the property array.
MagnitudeTest(P) == AllGreater(P, MagLow) /\ AllLess(P, MagHigh)
MassTest(P) == AllGreater(P, MassLow)

\* Lines 50-55: sortfactor, for an array that passes one of the tests.
Ranking(P) == IF MagnitudeTest(P) THEN 1 ELSE -1

\* Line 58: groupsel
GroupSelOf(G, gg) == NpWhereEq(G, gg)

\* Line 60: sortidx
SortIdxs(P, f, sel) == ArgSorts(Scaled(f, Take(P, sel)))

\* Line 61: hh
RepresentativeHalo(H, sel, sortidx) == ScipyMode(Take(Take(H, sel), sortidx))

\* Lines 62-63: N_h
HaloCount(H, hh) == CountEq(H, hh)

\* N_s taken to be the size of the group.
SelectedCountGroupSize(H, sel, hh) == Len(sel)

\* N_s counted over the whole catalog instead of the group.
SelectedCountCatalog(H, sel, hh) == CountEq(H, hh)

\* Line 64: N_s
SelectedCount(H, sel, hh) == CountEq(Take(H, sel), hh)

\* An assignment to the whole array.
AssignAll(arr, sel, v) == [i \in DOMAIN arr |-> v]

\* Lines 65-66: arr[groupsel] = v
Assign(arr, sel, v) == [i \in DOMAIN arr |-> IF i \in Range(sel) THEN v ELSE arr[i]]

\* An iteration that counts N_h among the members of the group only.
IterationHaloInGroup(G, H, gg, sortidx) ==
    LET sel == GroupSelOf(G, gg)
        hh == RepresentativeHalo(H, sel, sortidx)
    IN [gg |-> gg, hh |-> hh, N_g |-> Len(sel),
        N_h |-> CountEq(Take(H, sel), hh),
        N_s |-> SelectedCount(H, sel, hh)]

\* Lines 58-64: the values one iteration computes for the group gg.
Iteration(G, H, gg, sortidx) ==
    LET sel == GroupSelOf(G, gg)
        hh == RepresentativeHalo(H, sel, sortidx)
    IN [gg |-> gg, hh |-> hh, N_g |-> Len(sel), N_h |-> HaloCount(H, hh),
        N_s |-> SelectedCount(H, sel, hh)]

\* Lines 57-66 as a function of the inputs: every pair <<purity,
\* completeness>> the loop over the groups can leave, one per choice of the
\* sorting permutations.
RECURSIVE LoopResults(_, _, _, _, _, _)
LoopResults(G, H, P, f, groups, res) ==
    IF groups = <<>> THEN res
    ELSE LET gg == Head(groups)
             sel == GroupSelOf(G, gg)
         IN LoopResults(G, H, P, f, Tail(groups),
                {LET it == Iteration(G, H, gg, sortidx)
                 IN <<Assign(r[1], sel, TrueDivide(it.N_s, it.N_g)),
                      Assign(r[2], sel, TrueDivide(it.N_s, it.N_h))>> :
                    r \in res, sortidx \in SortIdxs(P, f, sel)})

\* get_metrics on equal-length inputs whose property array passes a range
\* test: the set of the pairs <<purity, completeness>> it can return.
GetMetrics(G, H, P) ==
    LoopResults(G, H, P, Ranking(P), NpUnique(G),
                {<<NpFull(Len(G), Float(Sentinel)), NpFull(Len(G), Float(Sentinel))>>})

\* ------------------------------------------------------------ state
VARIABLES groupid, haloid, galproperty, purity, completeness,
          unique_groups, locals, gi, done, pc, err

vars == <<groupid, haloid, galproperty, purity, completeness,
          unique_groups, locals, gi, done, pc, err>>

Inputs ==
    (SeqsUpTo(GroupIds, MaxGal) \X SeqsUpTo(HaloIds, MaxGal)
        \X SeqsUpTo(PropValues, MaxGal)) \cup {ScenarioInput}

NoLocals == [n \in {} |-> 0]

Bind(l, name, v) == (name :> v) @@ l

\* Lines 42-48: the state on reaching the classification of line 50.
Init ==
    /\ \E in \in Inputs :
        /\ groupid = in[1]
        /\ haloid = in[2]
        /\ galproperty = in[3]
    /\ completeness = NpFull(Len(groupid), Float(Sentinel))
    /\ purity = NpFull(Len(groupid), Float(Sentinel))
    /\ unique_groups = NpUnique(groupid)
    /\ locals = Bind(NoLocals, "ngal", Len(groupid))
    /\ gi = 0
    /\ done = <<>>
    /\ pc = "classify"
    /\ err = "none"

\* Lines 50-55: the ranking rule; neither branch binds sortfactor when
\* both range tests fail.
Classify ==
    /\ pc = "classify"
    /\ locals' =
        IF MagnitudeTest(galproperty) THEN Bind(locals, "sortfactor", 1)
        ELSE IF MassTest(galproperty) THEN Bind(locals, "sortfactor", -1)
        ELSE locals
    /\ pc' = "loop"
    /\ UNCHANGED <<groupid, haloid, galproperty, purity, completeness,
                   unique_groups, gi, done, err>>

\* The group of the next iteration of line 57, and lines 58-59 for it.
NextGroup == unique_groups[gi + 1]
GroupSel == GroupSelOf(groupid, NextGroup)
Entered == Bind(Bind(locals, "gg", NextGroup), "N_g", Len(GroupSel))

\* Line 60 reads sortfactor, which no branch of the classification bound.
RaiseUnbound ==
    /\ pc = "loop"
    /\ gi < Len(unique_groups)
    /\ "sortfactor" \notin DOMAIN locals
    /\ locals' = Entered
    /\ pc' = "raised"
    /\ err' = "UnboundLocalError"
    /\ UNCHANGED <<groupid, haloid, galproperty, purity, completeness,
                   unique_groups, gi, done>>

\* Lines 60-61 index galproperty and haloid with indices of groupid.
RaiseIndex ==
    /\ pc = "loop"
    /\ gi < Len(unique_groups)
    /\ "sortfactor" \in DOMAIN locals
    /\ ~InBounds(galproperty, GroupSel) \/ ~InBounds(haloid, GroupSel)
    /\ locals' = Entered
    /\ pc' = "raised"
    /\ err' = "IndexError"
    /\ UNCHANGED <<groupid, haloid, galproperty, purity, completeness,
                   unique_groups, gi, done>>

\* Lines 58-66: one iteration of the loop over the groups.
LoopBody ==
    /\ pc = "loop"
    /\ gi < Len(unique_groups)
    /\ "sortfactor" \in DOMAIN locals
    /\ InBounds(galproperty, GroupSel)
    /\ InBounds(haloid, GroupSel)
    /\ \E sortidx \in SortIdxs(galproperty, locals["sortfactor"], GroupSel) :
        LET it == Iteration(groupid, haloid, NextGroup, sortidx)
        IN /\ purity' = Assign(purity, GroupSel, TrueDivide(it.N_s, it.N_g))
           /\ completeness' = Assign(completeness, GroupSel, TrueDivide(it.N_s, it.N_h))
           /\ locals' = Bind(Bind(Bind(Entered, "hh", it.hh), "N_h", it.N_h),
                             "N_s", it.N_s)
           /\ done' = Append(done, it)
    /\ gi' = gi + 1
    /\ UNCHANGED <<groupid, haloid, galproperty, unique_groups, pc, err>>

\* Line 67.
Return ==
    /\ pc = "loop"
    /\ gi = Len(unique_groups)
    /\ pc' = "returned"
    /\ UNCHANGED <<groupid, haloid, galproperty, purity, completeness,
                   unique_groups, locals, gi, done, err>>

Next == Classify \/ RaiseUnbound \/ RaiseIndex \/ LoopBody \/ Return

Spec == Init /\ [][Next]_vars

\* ------------------------------------------------------------ vocabulary of the properties
\* These definitions state the quantities of the properties directly on the
\* inputs; none of them uses an operator of the model of get_metrics.
SameLength == Len(groupid) = Len(haloid) /\ Len(haloid) = Len(galproperty)
IsMagnitudeArray(P) == \A i \in DOMAIN P : -30 < P[i] /\ P[i] < -12
IsMassArray(P) == \A i \in DOMAIN P : P[i] > 0
Classifiable(P) == IsMagnitudeArray(P) \/ IsMassArray(P)
WellFormed == SameLength /\ Classifiable(galproperty)
Terminated == pc \in {"returned", "raised"}

Members(g) == {i \in DOMAIN groupid : groupid[i] = g}
HaloMembers(h) == {i \in DOMAIN haloid : haloid[i] = h}
Matched(g, h) == Cardinality(Members(g) \cap HaloMembers(h))
HalosOf(g) == {haloid[i] : i \in Members(g)}

\* The most frequent halo id among the members of g, the smallest on a tie.
DominantHalo(g) ==
    CHOOSE h \in HalosOf(g) :
        \A h2 \in HalosOf(g) :
            \/ Matched(g, h) > Matched(g, h2)
            \/ Matched(g, h) = Matched(g, h2) /\ h <= h2

\* The float x is the quotient a / b.
RatIs(x, a, b) == x[2] # 0 /\ b # 0 /\ x[1] * b = a * x[2]
RatLess(x, y) == x[1] * y[2] < y[1] * x[2]
RatLeq(x, y) == x[1] * y[2] <= y[1] * x[2]
IsOne(x) == RatIs(x, 1, 1)

ScenarioPurity == << <<1, 1>>, <<1, 1>>, <<1, 2>>, <<1, 2>> >>
ScenarioCompleteness == << <<2, 3>>, <<2, 3>>, <<1, 3>>, <<1, 3>> >>
IsScenario == <<groupid, haloid, galproperty>> = ScenarioInput

\* ------------------------------------------------------------ properties
\* C1: on a well-formed input, get_metrics returns for every galaxy i of
\* group g purity N_s/N_g and completeness N_s/N_h, where h is the most
\* frequent halo id of g (smallest id on a tie), N_g the size of g, N_h the
\* catalog-wide size of h and N_s the number of members of g in h; the
\* documented scenario returns purity [1,1,1/2,1/2] and completeness
\* [2/3,2/3,1/3,1/3].
C1_MetricsOfDominantHalo ==
    (pc = "returned" /\ WellFormed) =>
        /\ Len(purity) = Len(groupid)
        /\ Len(completeness) = Len(groupid)
        /\ \A i \in DOMAIN groupid :
            LET g == groupid[i]
                h == DominantHalo(g)
            IN /\ RatIs(purity[i], Matched(g, h), Cardinality(Members(g)))
               /\ RatIs(completeness[i], Matched(g, h), Cardinality(HaloMembers(h)))
        /\ IsScenario =>
            \A i \in 1..4 :
                /\ RatIs(purity[i], ScenarioPurity[i][1], ScenarioPurity[i][2])
                /\ RatIs(completeness[i], ScenarioCompleteness[i][1],
                         ScenarioCompleteness[i][2])

C1_Witness == pc = "returned" /\ IsScenario

\* C2: on a well-formed input every returned purity and completeness lies
\* in (0, 1], no division had a zero divisor, and the -999 the arrays were
\* filled with appears at no index.
C2_RangeAndNoSentinel ==
    (pc = "returned" /\ WellFormed) =>
        /\ \A k \in DOMAIN done : done[k].N_g >= 1 /\ done[k].N_h >= 1
        /\ \A i \in DOMAIN groupid :
            /\ purity[i][2] > 0
            /\ completeness[i][2] > 0
            /\ RatLess(<<0, 1>>, purity[i]) /\ RatLeq(purity[i], <<1, 1>>)
            /\ RatLess(<<0, 1>>, completeness[i]) /\ RatLeq(completeness[i], <<1, 1>>)
            /\ ~RatIs(purity[i], -999, 1)
            /\ ~RatIs(completeness[i], -999, 1)

C2_Witness ==
    /\ pc = "returned" /\ WellFormed
    /\ \E i \in DOMAIN groupid : RatLess(purity[i], <<1, 1>>)
    /\ \E i \in DOMAIN groupid : RatLess(completeness[i], <<1, 1>>)

\* C5: with three zero-length inputs get_metrics raises nothing, has no
\* group to process, and returns a purity and a completeness of length zero.
AllEmpty == groupid = <<>> /\ haloid = <<>> /\ galproperty = <<>>

C5_EmptyInput ==
    AllEmpty =>
        /\ pc # "raised" /\ err = "none"
        /\ pc = "loop" => ENABLED Return
        /\ pc = "returned" => Len(purity) = 0 /\ Len(completeness) = 0

C5_Witness == AllEmpty /\ pc = "returned" /\ purity = <<>> /\ completeness = <<>>

\* C7: on a well-formed input, for every halo id h, the N_s of the groups the
\* run mapped to h add up to at most the catalog-wide number of galaxies of
\* h, and the completeness values of those groups add up to at most 1.
RatAdd(x, y) == <<x[1] * y[2] + y[1] * x[2], x[2] * y[2]>>
CompletenessOf(g) == completeness[MinOf(Members(g))]

RECURSIVE FoundIn(_, _)
FoundIn(h, k) ==
    IF k = 0 THEN 0
    ELSE FoundIn(h, k - 1) + (IF done[k].hh = h THEN done[k].N_s ELSE 0)

RECURSIVE CompletenessSum(_, _)
CompletenessSum(h, k) ==
    IF k = 0 THEN <<0, 1>>
    ELSE IF done[k].hh = h
         THEN RatAdd(CompletenessSum(h, k - 1), CompletenessOf(done[k].gg))
         ELSE CompletenessSum(h, k - 1)

C7_HaloNotOverfound ==
    WellFormed =>
        \A h \in Range(haloid) :
            /\ FoundIn(h, Len(done)) <= Cardinality(HaloMembers(h))
            /\ CompletenessSum(h, Len(done))[2] > 0
            /\ RatLeq(CompletenessSum(h, Len(done)), <<1, 1>>)

C7_Witness ==
    /\ pc = "returned" /\ WellFormed
    /\ \E k1, k2 \in DOMAIN done :
        /\ k1 # k2
        /\ done[k1].hh = done[k2].hh
        /\ done[k1].N_s < done[k1].N_g

\* C8: on a well-formed input, galaxies of one group hold the same purity
\* and the same completeness; the values of a group are at exactly the
\* indices of that group, so the entries of a group the loop has processed
\* still hold that group's own N_s/N_g and N_s/N_h whatever later groups
\* wrote, the entries of a group not processed yet hold the fill value, and
\* a returned run has processed every group once.
RatEq(x, y) == x[1] * y[2] = y[1] * x[2]
RecordsOf(g) == {k \in DOMAIN done : done[k].gg = g}

C8_GroupBroadcast ==
    WellFormed =>
        /\ \A i, j \in DOMAIN groupid :
            groupid[i] = groupid[j] =>
                RatEq(purity[i], purity[j]) /\ RatEq(completeness[i], completeness[j])
        /\ \A i \in DOMAIN groupid :
            /\ \A k \in RecordsOf(groupid[i]) :
                /\ RatIs(purity[i], done[k].N_s, done[k].N_g)
                /\ RatIs(completeness[i], done[k].N_s, done[k].N_h)
            /\ RecordsOf(groupid[i]) = {} =>
                RatIs(purity[i], -999, 1) /\ RatIs(completeness[i], -999, 1)
        /\ pc = "returned" =>
            \A g \in Range(groupid) : Cardinality(RecordsOf(g)) = 1

C8_Witness ==
    /\ pc = "returned" /\ WellFormed
    /\ \E i, j, k \in DOMAIN groupid :
        /\ i # j /\ groupid[i] = groupid[j] /\ groupid[k] > groupid[i]
        /\ ~RatEq(purity[i], purity[k])
        /\ ~RatEq(completeness[i], completeness[k])

\* C9: for fixed groupid and haloid the result does not depend on the
\* property array: every property array of the same length that passes the
\* magnitude test or the mass test, in any order of its values, makes
\* get_metrics return exactly the purity and completeness of this run.
PassingProperties(n) ==
    [1..n -> {v \in PropValues : -30 < v /\ v < -12}]
        \cup [1..n -> {v \in PropValues : v > 0}]

C9_PropertyIrrelevant ==
    (pc = "returned" /\ WellFormed) =>
        \A P2 \in PassingProperties(Len(groupid)) :
            GetMetrics(groupid, haloid, P2) = {<<purity, completeness>>}

C9_Witness ==
    /\ pc = "returned" /\ WellFormed
    /\ \E i, j \in DOMAIN groupid :
        /\ groupid[i] = groupid[j]
        /\ haloid[i] # haloid[j]
        /\ galproperty[i] # galproperty[j]
        /\ Matched(groupid[i], haloid[i]) = Matched(groupid[i], haloid[j])
        /\ Cardinality(HaloMembers(haloid[i])) # Cardinality(HaloMembers(haloid[j]))

\* C10: on a well-formed non-empty input every galaxy has purity 1 and
\* completeness 1 exactly when the partition by groupid is the partition by
\* haloid; a group with a member outside its dominant halo has purity below
\* 1, and a group that misses a member of its dominant halo has completeness
\* below 1.
PartitionsCoincide ==
    {Members(g) : g \in Range(groupid)} = {HaloMembers(h) : h \in Range(haloid)}

C10_PerfectIffSamePartition ==
    (pc = "returned" /\ WellFormed /\ Len(groupid) > 0) =>
        /\ (\A i \in DOMAIN groupid : IsOne(purity[i]) /\ IsOne(completeness[i]))
                <=> PartitionsCoincide
        /\ \A i \in DOMAIN groupid :
            LET g == groupid[i]
                h == DominantHalo(g)
            IN /\ Members(g) \ HaloMembers(h) # {} => RatLess(purity[i], <<1, 1>>)
               /\ HaloMembers(h) \ Members(g) # {} => RatLess(completeness[i], <<1, 1>>)

C10_Witness ==
    /\ pc = "returned" /\ WellFormed
    /\ PartitionsCoincide
    /\ Cardinality(Range(groupid)) = 2
    /\ \A i \in DOMAIN groupid : IsOne(purity[i]) /\ IsOne(completeness[i])

\* C3: a property array that passes neither range test makes get_metrics
\* fail with a ClassificationError.
C3_ClassificationError ==
    (Terminated /\ SameLength /\ ~Classifiable(galproperty)) =>
        (pc = "raised" /\ err = "ClassificationError")

\* C4: inputs that do not all have the same length make get_metrics end in
\* a ShapeMismatchError, returning no arrays.
C4_ShapeMismatchError ==
    (Terminated /\ ~SameLength) =>
        (pc = "raised" /\ err = "ShapeMismatchError")

\* C6: a run that ends in an error has processed no group: no N_g, N_h or
\* N_s was computed and no entry of purity or completeness was written.
C6_FailBeforeLoop ==
    pc = "raised" =>
        /\ done = <<>>
        /\ DOMAIN locals \cap {"N_g", "N_h", "N_s"} = {}
        /\ \A i \in DOMAIN purity :
            RatIs(purity[i], -999, 1) /\ RatIs(completeness[i], -999, 1)

====
